---- MODULE Spec2Model ----
(***************************************************************************)
(* SigFlow-py: the two ITCH 5.0 feed readers of the repository.            *)
(*                                                                         *)
(*   prog = "parser"       engine/parser.py       ITCH.parse: order book,  *)
(*                         executions, top-of-book snapshots, directory    *)
(*   prog = "hourly_vwap"  engine/hourly_vwap.py  ITCH.parse: P trades     *)
(*                         buffered per hour, one VWAP file per flush      *)
(*                                                                         *)
(* One step of the model is one iteration of the `while True` loop of the  *)
(* program that runs: the read of the type byte, the read of the body and  *)
(* the whole handler the loop dispatches to.  The input file is chosen as  *)
(* it is read: every read returns any bytes the file can hold at that      *)
(* offset, or fewer when the file ends there.  The file holds at most      *)
(* MaxIter type bytes and at most BytesLimit bytes.                        *)
(*                                                                         *)
(* Representation of values                                                *)
(*   price      integer ticks; the float the code holds is ticks / 10^4    *)
(*   timestamp  <<sec, nano>>, the integer sec * 10^9 + nano nanoseconds   *)
(*   time_str   <<hh, mm, ss>>, the fields of the string "HH:MM:SS"        *)
(*   None       <<>> where the value is otherwise a tuple, "None" where    *)
(*              it is otherwise a string                                   *)
(***************************************************************************)
EXTENDS Integers, Sequences, FiniteSets, TLC

\* The input file is read in at most MaxIter iterations of the loop.
MaxIter == 3
\* The input file of parser.ITCH.parse holds at most MaxParserBytes bytes.
MaxParserBytes == 104
\* The input file of hourly_vwap.ITCH.parse holds at most MaxVwapBytes bytes.
MaxVwapBytes == 132

\* Values the decoded fields of the input are drawn from.
\* Symbols of P messages, and of A and F messages.
Symbols == {"AAPL", "MSFT"}
OrderSymbols == {"AAPL"}
Refs == {1, 2}
Locates == {1, 2}
Sides == {"B", "S"}
\* Shares of A, F, U, E and C messages, and of P messages.
ShareSet == {1, 2}
TradeShares == {0, 1, 2}
PriceSet == {1500000, 1600000}
\* Timestamps of P messages, and of every other message.
TsSet == {<<0, 0>>, <<3600, 0>>}
MsgTs == {<<3661, 0>>}
\* The timestamps of two more P messages: 400 ns before 01:00:00, and
\* 25:00:00, which the 6-byte field can carry.
EdgeTs == {<<3599, 999999600>>, <<90000, 0>>}
EventCodes == {"O", "Q", "M"}
Printables == {"Y", "N"}
\* The attribution (MPID) of F messages.
Mpids == {"NSDQ", "ARCA"}
\* Type bytes that no size table holds.
UnknownBytes == {"Z", "NUL"}

VARIABLES
    prog,          \* which module's ITCH.parse runs
    pc,            \* "run": in the while loop; "done": parse has returned
    pos,           \* offset of the open input file
    count,         \* iterations of the while loop begun
    eof,           \* a read came back short: the file has ended
    header,        \* the type byte read in this iteration ("" at end of file)
    msg,           \* the body read in this iteration, by the fields the code
                   \* decodes (NoMsg when the iteration read no body)
    order_book,    \* parser.ITCH.order_book: order reference -> order
    stock_map,     \* parser.ITCH.stock_map: stock locate -> ticker
    executions,    \* parser.ITCH.executions
    snapshots,     \* parser.ITCH.snapshotter.snapshots
    market_open,   \* local of parser.ITCH.parse
    market_close,  \* local of parser.ITCH.parse
    csv,           \* the files parser.ITCH.parse writes under output/
    trades,        \* hourly_vwap.ITCH.trades
    current_hour,  \* hourly_vwap.ITCH.current_hour
    outputs,       \* output/<hour>.txt written by hourly_vwap.ITCH.flush_trades
    fed,           \* history: every trade hourly_vwap.ITCH.parse has buffered,
                   \* with the timestamp its message carried
    src            \* history: per output file, the trades (indexes of fed) in it

vars == <<prog, pc, pos, count, eof, header, msg, order_book, stock_map, executions,
          snapshots, market_open, market_close, csv, trades, current_hour,
          outputs, fed, src>>

parser_vars == <<order_book, stock_map, executions, snapshots, market_open,
                 market_close, csv>>
vwap_vars == <<trades, current_hour, outputs, fed, src>>

None == <<>>
NoMsg == [len |-> 0]

-----------------------------------------------------------------------------
(* Size tables *)

m_map ==
    [S |-> 11, R |-> 38, H |-> 24, Y |-> 19, L |-> 25, V |-> 34, W |-> 11,
     K |-> 27, J |-> 34, h |-> 20, A |-> 35, F |-> 39, E |-> 30, C |-> 35,
     X |-> 22, D |-> 18, U |-> 34, P |-> 43, Q |-> 39, B |-> 18, I |-> 49,
     N |-> 19]

record_sizes ==
    [S |-> 11, R |-> 38, H |-> 24, Y |-> 19, L |-> 25, V |-> 34, W |-> 11,
     K |-> 27, A |-> 35, F |-> 39, E |-> 30, C |-> 35, X |-> 22, D |-> 18,
     U |-> 34, P |-> 43, Q |-> 39, B |-> 18, I |-> 49, N |-> 19]

SizeTable == IF prog = "parser" THEN m_map ELSE record_sizes

BytesLimit == IF prog = "parser" THEN MaxParserBytes ELSE MaxVwapBytes

\* The byte values the model feeds as type bytes: every type a parse loop
\* dispatches on, H (in both tables, dispatched on by neither), J (in m_map
\* only) and UnknownBytes.
TypeBytes == {"S", "R", "A", "F", "U", "D", "E", "C", "P", "H", "J"}
                \cup UnknownBytes

-----------------------------------------------------------------------------
(* Pure helpers *)

\* n / d rounded to the nearest integer, ties to the even one.
RoundHalfEven(n, d) ==
    LET q == n \div d
        r == n % d
    IN  IF 2 * r < d THEN q
        ELSE IF 2 * r > d THEN q + 1
        ELSE IF q % 2 = 0 THEN q ELSE q + 1

\* datetime.fromtimestamp(ts / 1e9, tz=utc).strftime('%H:%M:%S'): the float
\* seconds are rounded to whole microseconds, then the time of day is taken.
\* (On an exact half microsecond the result follows the binary float; no
\* timestamp of the model is one.)
convert_timestamp(ts) ==
    LET us  == RoundHalfEven(ts[2], 1000)
        sec == (IF us >= 1000000 THEN ts[1] + 1 ELSE ts[1]) % 86400
    IN  <<sec \div 3600, (sec % 3600) \div 60, sec % 60>>

TwoDigits(n) == IF n < 10 THEN "0" \o ToString(n) ELSE ToString(n)

\* time_str.split(":")[0]
HourOf(time_str) == TwoDigits(time_str[1])

-----------------------------------------------------------------------------
(* engine/book_snapshot.py *)

\* max() of a list of (price, volume) tuples: the greatest price, then volume.
TupleMax(S) ==
    CHOOSE b \in S : \A c \in S : c[1] < b[1] \/ (c[1] = b[1] /\ c[2] <= b[2])

\* A plausible slip: on a price tie the ask reports the largest volume, as the
\* bid does.
TupleMin_LargestOnTie(S) ==
    CHOOSE b \in S : \A c \in S : c[1] > b[1] \/ (c[1] = b[1] /\ c[2] <= b[2])

\* min() of a list of (price, volume) tuples.
TupleMin(S) ==
    CHOOSE b \in S : \A c \in S : c[1] > b[1] \/ (c[1] = b[1] /\ c[2] >= b[2])

\* BookSnapshotter.snapshot: the record appended.  best_bid and best_ask are
\* <<price, volume>>, or None when both fields are None.
snapshot(book, ts) ==
    LET bids == {<<book[r].price, book[r].volume>> :
                    r \in {x \in DOMAIN book : book[x].side = "B"}}
        asks == {<<book[r].price, book[r].volume>> :
                    r \in {x \in DOMAIN book : book[x].side = "S"}}
    IN  [timestamp |-> convert_timestamp(ts),
         best_bid  |-> IF bids # {} THEN TupleMax(bids) ELSE None,
         best_ask  |-> IF asks # {} THEN TupleMin(asks) ELSE None]

-----------------------------------------------------------------------------
(* engine/parser.py: the order book *)

\* self.order_book[ref] = order
BookPut(book, ref, order) ==
    [r \in DOMAIN book \cup {ref} |-> IF r = ref THEN order ELSE book[r]]

\* self.order_book.pop(ref)
BookPop(book, ref) == [r \in DOMAIN book \ {ref} |-> book[r]]

\* A plausible slip: an entry the book already holds for the reference is kept
\* (setdefault in place of the assignment).
BookAfterAdd_KeepFirst(book, m) ==
    IF m.ref \in DOMAIN book THEN book
    ELSE BookPut(book, m.ref,
                 [stock |-> m.stock, price |-> m.price, volume |-> m.shares,
                  side |-> m.side])

\* process_add_order: the book after an A or F message.
BookAfterAdd(book, m) ==
    BookPut(book, m.ref,
            [stock |-> m.stock, price |-> m.price, volume |-> m.shares,
             side |-> m.side])

\* A plausible slip: the order is copied to the new reference and the original
\* reference is left in the book.
BookAfterReplace_KeepOld(book, m) ==
    IF m.old_ref \in DOMAIN book
    THEN BookPut(book, m.new_ref,
                 [book[m.old_ref] EXCEPT !.volume = m.shares, !.price = m.price])
    ELSE book

\* process_order_replace: the book after a U message.
BookAfterReplace(book, m) ==
    IF m.old_ref \in DOMAIN book
    THEN BookPut(BookPop(book, m.old_ref), m.new_ref,
                 [book[m.old_ref] EXCEPT !.volume = m.shares, !.price = m.price])
    ELSE book

\* process_order_delete: the book after a D message.
BookAfterDelete(book, m) ==
    IF m.ref \in DOMAIN book THEN BookPop(book, m.ref) ELSE book

\* process_order_executed: printable == "Y", the gate of a C message.
Printable_Always(m) == TRUE

Printable(m) == m.printable = "Y"

\* A plausible slip: the price is looked up after the book update, as the stock is.
ExecPrice_AfterUpdate(book, m, with_price) ==
    IF with_price THEN m.price
    ELSE IF m.ref \in DOMAIN book /\ book[m.ref].volume # m.shares
         THEN book[m.ref].price ELSE 0

\* A plausible slip: an unknown reference carries the last execution's price forward.
ExecPrice_CarryForward(book, m, with_price) ==
    IF with_price THEN m.price
    ELSE IF m.ref \in DOMAIN book THEN book[m.ref].price
    ELSE IF executions # <<>> THEN executions[Len(executions)].price ELSE 0

\* A plausible slip: the price stored for the reference wins when there is one.
ExecPrice_BookFirst(book, m, with_price) ==
    IF m.ref \in DOMAIN book THEN book[m.ref].price
    ELSE IF with_price THEN m.price ELSE 0

\* process_order_executed: the price of the execution (0 is the float 0.0).
ExecPrice(book, m, with_price) ==
    IF with_price THEN m.price
    ELSE IF m.ref \in DOMAIN book THEN book[m.ref].price ELSE 0

\* A plausible slip: the order is popped on any execution it can fill.
BookAfterExec_PopAlways(book, m) ==
    IF m.ref \in DOMAIN book /\ book[m.ref].volume >= m.shares
    THEN BookPop(book, m.ref)
    ELSE book

\* A plausible slip: an execution for more than the resting volume fills the
\* order and removes it.
BookAfterExec_FillRemainder(book, m) ==
    IF m.ref \in DOMAIN book
    THEN IF book[m.ref].volume - m.shares <= 0
         THEN BookPop(book, m.ref)
         ELSE [book EXCEPT ![m.ref].volume = @ - m.shares]
    ELSE book

\* A plausible slip: the quantity is subtracted without comparing it to the
\* resting volume.
BookAfterExec_NoGuard(book, m) ==
    IF m.ref \in DOMAIN book
    THEN IF book[m.ref].volume - m.shares = 0
         THEN BookPop(book, m.ref)
         ELSE [book EXCEPT ![m.ref].volume = @ - m.shares]
    ELSE book

\* process_order_executed: "Update the corresponding order in the book".
BookAfterExec(book, m) ==
    IF m.ref \in DOMAIN book /\ book[m.ref].volume >= m.shares
    THEN IF book[m.ref].volume - m.shares = 0
         THEN BookPop(book, m.ref)
         ELSE [book EXCEPT ![m.ref].volume = @ - m.shares]
    ELSE book

\* process_order_executed: the record appended to self.executions; `book` is
\* the order book before the message, the stock is looked up after the update.
ExecRecord(book, m, with_price) ==
    LET after == BookAfterExec(book, m)
    IN  [stock     |-> IF m.ref \in DOMAIN after THEN after[m.ref].stock
                       ELSE "UNKNOWN",
         price     |-> ExecPrice(book, m, with_price),
         volume    |-> m.shares,
         timestamp |-> convert_timestamp(m.ts)]

\* A plausible slip: the record is put at the head of the list.
RecordExecution_AtHead(execs, rec) == <<rec>> \o execs

\* self.executions.append(...): the list after a record is added.
RecordExecution(execs, rec) == Append(execs, rec)

\* A plausible slip: the trade is priced from the order book when it can be.
TradeRecord_FromBook(m) ==
    [stock     |-> m.symbol,
     price     |-> IF order_book # <<>>
                   THEN order_book[CHOOSE r \in DOMAIN order_book : TRUE].price
                   ELSE m.price,
     volume    |-> m.shares,
     timestamp |-> convert_timestamp(m.ts)]

\* process_trade_P: trade_data, as the record parse appends to self.executions.
TradeRecord(m) ==
    [stock     |-> m.symbol,
     price     |-> m.price,
     volume    |-> m.shares,
     timestamp |-> convert_timestamp(m.ts)]

-----------------------------------------------------------------------------
(* engine/hourly_vwap.py: aggregation *)

\* process_trade: trade_data = [time_str, symbol, price, volume].
trade_data(m) ==
    [time   |-> convert_timestamp(m.ts),
     symbol |-> m.symbol,
     price  |-> m.price,
     volume |-> m.shares]

RECURSIVE SumAmount_Unweighted(_, _, _)
SumAmount_Unweighted(ts, hour, symbol) ==
    IF ts = <<>> THEN 0
    ELSE (IF ts[1].time[1] = hour /\ ts[1].symbol = symbol
          THEN ts[1].price ELSE 0)
         + SumAmount_Unweighted(Tail(ts), hour, symbol)

RECURSIVE SumAmount(_, _, _)
\* cal_vwap: the "amount" column summed over the group (hour, symbol), in
\* ticks (price * volume of the code, times 10^4).
SumAmount(ts, hour, symbol) ==
    IF ts = <<>> THEN 0
    ELSE (IF ts[1].time[1] = hour /\ ts[1].symbol = symbol
          THEN ts[1].price * ts[1].volume ELSE 0)
         + SumAmount(Tail(ts), hour, symbol)

RECURSIVE SumVolume(_, _, _)
\* cal_vwap: the "volume" column summed over the group (hour, symbol).
SumVolume(ts, hour, symbol) ==
    IF ts = <<>> THEN 0
    ELSE (IF ts[1].time[1] = hour /\ ts[1].symbol = symbol
          THEN ts[1].volume ELSE 0)
         + SumVolume(Tail(ts), hour, symbol)

\* (amount / volume).round(2): <<cents>>, or NaN (the float 0.0 / 0) as <<>>.
NaN == <<>>
Vwap(amount, volume) ==
    IF volume = 0 THEN NaN ELSE <<RoundHalfEven(amount, 100 * volume)>>

\* cal_vwap: the rows grouped[["time", "symbol", "vwap"]], one per (hour,
\* symbol) group of the trades; groupby sorts them, so the set fixes the file.
cal_vwap(ts) ==
    {[time   |-> <<k[1], 0, 0>>,
      symbol |-> k[2],
      vwap   |-> Vwap(SumAmount(ts, k[1], k[2]), SumVolume(ts, k[1], k[2]))] :
        k \in {<<ts[i].time[1], ts[i].symbol>> : i \in DOMAIN ts}}

\* Mutant: the outputs are pre-populated for the hours 00 and 01, so that an
\* hour without trades has an (empty) output.
OutputsAfterFlush_Dense(out, hour, ts) ==
    [f \in DOMAIN out \cup {hour, "00", "01"} |->
        IF f = hour /\ ts # <<>> THEN cal_vwap(ts)
        ELSE IF f \in DOMAIN out THEN out[f] ELSE {}]

\* flush_trades(hour): output/<hour>.txt after the call.
OutputsAfterFlush(out, hour, ts) ==
    IF ts # <<>>
    THEN [f \in DOMAIN out \cup {hour} |->
            IF f = hour THEN cal_vwap(ts) ELSE out[f]]
    ELSE out

TradesAfterFlush_Kept(ts) == ts

\* flush_trades(hour): self.trades after the call.
TradesAfterFlush(ts) == <<>>

-----------------------------------------------------------------------------
(* Messages, by the fields the handlers decode *)

Msg_S == [len : {m_map.S}, ts : MsgTs, event_code : EventCodes]
Msg_R == [len : {m_map.R}, locate : Locates, ticker : Symbols]
Msg_A == [len : {m_map.A}, ref : Refs, side : Sides, shares : ShareSet,
          stock : OrderSymbols, price : PriceSet, ts : MsgTs]
Msg_F == [len : {m_map.F}, ref : Refs, side : Sides, shares : ShareSet,
          stock : OrderSymbols, price : PriceSet, ts : MsgTs, mpid : Mpids]
Msg_U == [len : {m_map.U}, old_ref : Refs, new_ref : Refs, shares : ShareSet,
          price : PriceSet, ts : MsgTs]
Msg_D == [len : {m_map.D}, ref : Refs, ts : MsgTs]
Msg_E == [len : {m_map.E}, ref : Refs, shares : ShareSet, ts : MsgTs]
Msg_C == [len : {m_map.C}, ref : Refs, shares : ShareSet, ts : MsgTs,
          printable : Printables, price : PriceSet]
Msg_P ==
    [len : {m_map.P}, ts : TsSet, shares : TradeShares, symbol : Symbols,
     price : PriceSet]
    \cup [len : {m_map.P}, ts : EdgeTs, shares : {1}, symbol : {"AAPL"},
          price : {1500000}]

\* Types parser.ITCH.parse dispatches on.
ParserHandled == {"S", "R", "A", "F", "U", "D", "E", "C", "P"}
\* Types hourly_vwap.ITCH.parse dispatches on.
VwapHandled == {"P"}
Handled == IF prog = "parser" THEN ParserHandled ELSE VwapHandled

\* Lengths a short read of an n-byte body returns.
ShortLens(n) == {n - 1}

-----------------------------------------------------------------------------
(* Reading *)

Init ==
    /\ prog \in {"parser", "hourly_vwap"}
    /\ pc = "run"
    /\ pos = 0
    /\ count = 0
    /\ eof = FALSE
    /\ header = ""
    /\ msg = NoMsg
    /\ order_book = <<>>
    /\ stock_map = <<>>
    /\ executions = <<>>
    /\ snapshots = <<>>
    /\ market_open = None
    /\ market_close = None
    /\ csv = <<>>
    /\ trades = <<>>
    /\ current_hour = "None"
    /\ outputs = <<>>
    /\ fed = <<>>
    /\ src = <<>>

\* header = f.read(1); size = table.get(header); msg = f.read(size), the
\* body read in full.
Read(t, m) ==
    /\ pc = "run"
    /\ ~eof
    /\ t \in DOMAIN SizeTable
    /\ m.len = SizeTable[t]
    /\ count < MaxIter
    /\ pos + 1 + m.len <= BytesLimit
    /\ pos' = pos + 1 + m.len
    /\ count' = count + 1
    /\ header' = t
    /\ msg' = m
    /\ eof' = FALSE
    /\ prog' = prog

\* A plausible slip: the order-book output is written only for a book that
\* holds an order.
CsvWritten_SkipEmptyBook ==
    IF order_book = <<>>
    THEN [executions |-> executions, snapshots |-> snapshots]
    ELSE [order_book |-> order_book, executions |-> executions,
          snapshots |-> snapshots]

\* output_order_book(), output_executions(), snapshotter.output(...).
CsvWritten ==
    [order_book |-> order_book, executions |-> executions,
     snapshots |-> snapshots]

-----------------------------------------------------------------------------
(* engine/parser.py: ITCH.parse, one action per branch of the dispatch *)

\* A plausible slip: market close is recorded but the loop goes on.
LoopAfterSystemEvent_NoBreak(m) == "run"

\* header == b"S": the `break` on event code "M".
LoopAfterSystemEvent(m) == IF m.event_code = "M" THEN "done" ELSE "run"

\* header == b"S"
ParserSystemEvent ==
    \E m \in Msg_S :
        /\ prog = "parser"
        /\ Read("S", m)
        /\ IF m.event_code = "Q" /\ market_open = None
           THEN /\ market_open' = m.ts
                /\ UNCHANGED <<market_close, csv>>
           ELSE IF m.event_code = "M"
           THEN /\ market_close' = m.ts
                /\ csv' = CsvWritten
                /\ UNCHANGED market_open
           ELSE UNCHANGED <<market_open, market_close, csv>>
        /\ pc' = LoopAfterSystemEvent(m)
        /\ UNCHANGED <<order_book, stock_map, executions, snapshots, vwap_vars>>

\* A plausible slip: the first announcement of a code is kept.
StockMapAfter_KeepFirst(map, m) ==
    IF m.locate \in DOMAIN map THEN map
    ELSE [l \in DOMAIN map \cup {m.locate} |->
            IF l = m.locate THEN m.ticker ELSE map[l]]

\* self.stock_map[stockID] = ticker
StockMapAfter(map, m) ==
    [l \in DOMAIN map \cup {m.locate} |->
        IF l = m.locate THEN m.ticker ELSE map[l]]

\* header == b"R"
ParserStockDirectory ==
    \E m \in Msg_R :
        /\ prog = "parser"
        /\ Read("R", m)
        /\ stock_map' = StockMapAfter(stock_map, m)
        /\ pc' = "run"
        /\ UNCHANGED <<order_book, executions, snapshots, market_open,
                       market_close, csv, vwap_vars>>

\* header == b"A": process_add_order(msg, with_mpid=False)
ParserAddOrderA ==
    \E m \in Msg_A :
        /\ prog = "parser"
        /\ Read("A", m)
        /\ order_book' = BookAfterAdd(order_book, m)
        /\ snapshots' = Append(snapshots, snapshot(order_book', m.ts))
        /\ pc' = "run"
        /\ UNCHANGED <<stock_map, executions, market_open, market_close, csv,
                       vwap_vars>>

\* header == b"F": process_add_order(msg, with_mpid=True)
ParserAddOrderF ==
    \E m \in Msg_F :
        /\ prog = "parser"
        /\ Read("F", m)
        /\ order_book' = BookAfterAdd(order_book, m)
        /\ snapshots' = Append(snapshots, snapshot(order_book', m.ts))
        /\ pc' = "run"
        /\ UNCHANGED <<stock_map, executions, market_open, market_close, csv,
                       vwap_vars>>

\* header == b"U": process_order_replace(msg)
ParserOrderReplace ==
    \E m \in Msg_U :
        /\ prog = "parser"
        /\ Read("U", m)
        /\ order_book' = BookAfterReplace(order_book, m)
        /\ snapshots' = IF m.old_ref \in DOMAIN order_book
                        THEN Append(snapshots, snapshot(order_book', m.ts))
                        ELSE snapshots
        /\ pc' = "run"
        /\ UNCHANGED <<stock_map, executions, market_open, market_close, csv,
                       vwap_vars>>

\* A plausible slip: the snapshot of process_order_delete is taken outside the
\* if, for an absent reference as well.
ParserOrderDelete_AlwaysSnapshot ==
    \E m \in Msg_D :
        /\ prog = "parser"
        /\ Read("D", m)
        /\ order_book' = BookAfterDelete(order_book, m)
        /\ snapshots' = Append(snapshots, snapshot(order_book', m.ts))
        /\ pc' = "run"
        /\ UNCHANGED <<stock_map, executions, market_open, market_close, csv,
                       vwap_vars>>

\* header == b"D": process_order_delete(msg)
ParserOrderDelete ==
    \E m \in Msg_D :
        /\ prog = "parser"
        /\ Read("D", m)
        /\ order_book' = BookAfterDelete(order_book, m)
        /\ snapshots' = IF m.ref \in DOMAIN order_book
                        THEN Append(snapshots, snapshot(order_book', m.ts))
                        ELSE snapshots
        /\ pc' = "run"
        /\ UNCHANGED <<stock_map, executions, market_open, market_close, csv,
                       vwap_vars>>

\* header == b"E": process_order_executed(msg, with_price=False)
ParserOrderExecutedE ==
    \E m \in Msg_E :
        /\ prog = "parser"
        /\ Read("E", m)
        /\ order_book' = BookAfterExec(order_book, m)
        /\ executions' = RecordExecution(executions,
                                        ExecRecord(order_book, m, FALSE))
        /\ snapshots' = Append(snapshots, snapshot(order_book', m.ts))
        /\ pc' = "run"
        /\ UNCHANGED <<stock_map, market_open, market_close, csv, vwap_vars>>

\* header == b"C": process_order_executed(msg, with_price=True)
ParserOrderExecutedC ==
    \E m \in Msg_C :
        /\ prog = "parser"
        /\ Read("C", m)
        /\ IF ~Printable(m)
           THEN UNCHANGED <<order_book, executions, snapshots>>
           ELSE /\ order_book' = BookAfterExec(order_book, m)
                /\ executions' = RecordExecution(executions,
                                        ExecRecord(order_book, m, TRUE))
                /\ snapshots' = Append(snapshots, snapshot(order_book', m.ts))
        /\ pc' = "run"
        /\ UNCHANGED <<stock_map, market_open, market_close, csv, vwap_vars>>

\* header == b"P": process_trade_P(msg), then self.executions.append(...)
ParserTrade ==
    \E m \in Msg_P :
        /\ prog = "parser"
        /\ Read("P", m)
        /\ executions' = RecordExecution(executions, TradeRecord(m))
        /\ pc' = "run"
        /\ UNCHANGED <<order_book, stock_map, snapshots, market_open,
                       market_close, csv, vwap_vars>>

-----------------------------------------------------------------------------
(* engine/hourly_vwap.py: ITCH.parse *)

\* header == b"P": process_trade(record), flush on a change of hour, append.
VwapTrade ==
    \E m \in Msg_P :
        LET td   == trade_data(m)
            hour == HourOf(td.time)
            cur  == IF current_hour = "None" THEN hour ELSE current_hour
            buffered == (Len(fed) - Len(trades) + 1) .. Len(fed)
        IN  /\ prog = "hourly_vwap"
            /\ Read("P", m)
            /\ IF hour # cur
               THEN /\ outputs' = OutputsAfterFlush(outputs, cur, trades)
                    /\ trades' = Append(TradesAfterFlush(trades), td)
                    /\ src' = IF trades # <<>>
                              THEN [f \in DOMAIN src \cup {cur} |->
                                      IF f = cur THEN buffered ELSE src[f]]
                              ELSE src
               ELSE /\ trades' = Append(trades, td)
                    /\ UNCHANGED <<outputs, src>>
            /\ current_hour' = hour
            /\ fed' = Append(fed, [time |-> td.time, symbol |-> td.symbol,
                                   price |-> td.price, volume |-> td.volume,
                                   ts |-> m.ts])
            /\ pc' = "run"
            /\ UNCHANGED parser_vars

-----------------------------------------------------------------------------
(* Both parse loops *)

\* A known type with no branch in the dispatch: the body is read and dropped.
ReadIgnored ==
    \E t \in (TypeBytes \cap DOMAIN SizeTable) \ Handled :
        /\ Read(t, [len |-> SizeTable[t]])
        /\ pc' = "run"
        /\ UNCHANGED <<parser_vars, vwap_vars>>

\* A plausible slip: a byte of body is consumed after an unknown type byte.
ReadUnknown_SkipByte ==
    \E b \in TypeBytes \ DOMAIN SizeTable :
        /\ pc = "run"
        /\ ~eof
        /\ count < MaxIter
        /\ pos + 2 <= BytesLimit
        /\ pos' = pos + 2
        /\ count' = count + 1
        /\ header' = b
        /\ pc' = "run"
        /\ msg' = NoMsg
        /\ UNCHANGED <<prog, eof, parser_vars, vwap_vars>>

\* A plausible slip: the unknown type byte is put back (the file offset is
\* reset before `continue`), so that the loop reads it again.
ReadUnknown_NoAdvance ==
    \E b \in TypeBytes \ DOMAIN SizeTable :
        /\ pc = "run"
        /\ ~eof
        /\ count < MaxIter
        /\ pos + 1 <= BytesLimit
        /\ header' = b
        /\ pc' = "run"
        /\ msg' = NoMsg
        /\ UNCHANGED <<prog, pos, count, eof, parser_vars, vwap_vars>>

\* size is None: continue.  No body is read.
ReadUnknown ==
    \E b \in TypeBytes \ DOMAIN SizeTable :
        /\ pc = "run"
        /\ ~eof
        /\ count < MaxIter
        /\ pos + 1 <= BytesLimit
        /\ pos' = pos + 1
        /\ count' = count + 1
        /\ header' = b
        /\ pc' = "run"
        /\ msg' = NoMsg
        /\ UNCHANGED <<prog, eof, parser_vars, vwap_vars>>

\* A plausible slip: process_trade_P without its length check, so that the
\* bytes of a truncated trade are recorded as an execution.
ReadShort_NoLengthCheck ==
    \E t \in TypeBytes \cap DOMAIN SizeTable :
        \E k \in ShortLens(SizeTable[t]) :
            /\ pc = "run"
            /\ ~eof
            /\ count < MaxIter
            /\ pos + 1 + k <= BytesLimit
            /\ pos' = pos + 1 + k
            /\ count' = count + 1
            /\ header' = t
            /\ msg' = [len |-> k]
            /\ eof' = TRUE
            /\ pc' = "run"
            /\ IF prog = "parser" /\ t = "P"
               THEN /\ executions' = RecordExecution(executions,
                            [stock |-> "", price |-> 0, volume |-> 0,
                             timestamp |-> <<0, 0, 0>>])
                    /\ UNCHANGED <<prog, order_book, stock_map, snapshots,
                                   market_open, market_close, csv, vwap_vars>>
               ELSE UNCHANGED <<prog, parser_vars, vwap_vars>>

\* The file ends inside the body of a known type: f.read(size) returns k <
\* size bytes.  struct.unpack raises struct.error, which every handler
\* catches (S, R: continue; A, F, U, D, E, C: return), and process_trade /
\* process_trade_P return (None, None) on len(msg) != 43.
ReadShort ==
    \E t \in TypeBytes \cap DOMAIN SizeTable :
        \E k \in ShortLens(SizeTable[t]) :
            /\ pc = "run"
            /\ ~eof
            /\ count < MaxIter
            /\ pos + 1 + k <= BytesLimit
            /\ pos' = pos + 1 + k
            /\ count' = count + 1
            /\ header' = t
            /\ msg' = [len |-> k]
            /\ eof' = TRUE
            /\ pc' = "run"
            /\ UNCHANGED <<prog, parser_vars, vwap_vars>>

\* A plausible change: a read that came back short is fatal, and parse ends
\* without writing what it has built.
ReadEnd_AbortOnShort ==
    /\ pc = "run"
    /\ header' = ""
    /\ eof' = TRUE
    /\ pc' = "done"
    /\ msg' = NoMsg
    /\ UNCHANGED <<prog, pos, count>>
    /\ IF eof
       THEN UNCHANGED <<parser_vars, vwap_vars>>
       ELSE IF prog = "parser"
       THEN /\ csv' = CsvWritten
            /\ UNCHANGED <<order_book, stock_map, executions, snapshots,
                           market_open, market_close, vwap_vars>>
       ELSE /\ outputs' = OutputsAfterFlush(outputs, current_hour, trades)
            /\ trades' = TradesAfterFlush(trades)
            /\ src' = IF trades # <<>>
                      THEN [f \in DOMAIN src \cup {current_hour} |->
                              IF f = current_hour
                              THEN (Len(fed) - Len(trades) + 1) .. Len(fed)
                              ELSE src[f]]
                      ELSE src
            /\ UNCHANGED <<current_hour, fed, parser_vars>>

\* f.read(1) returns b"": break, then what follows the loop.
ReadEnd ==
    /\ pc = "run"
    /\ header' = ""
    /\ eof' = TRUE
    /\ pc' = "done"
    /\ msg' = NoMsg
    /\ UNCHANGED <<prog, pos, count>>
    /\ IF prog = "parser"
       THEN /\ csv' = CsvWritten
            /\ UNCHANGED <<order_book, stock_map, executions, snapshots,
                           market_open, market_close, vwap_vars>>
       ELSE /\ outputs' = OutputsAfterFlush(outputs, current_hour, trades)
            /\ trades' = TradesAfterFlush(trades)
            /\ src' = IF trades # <<>>
                      THEN [f \in DOMAIN src \cup {current_hour} |->
                              IF f = current_hour
                              THEN (Len(fed) - Len(trades) + 1) .. Len(fed)
                              ELSE src[f]]
                      ELSE src
            /\ UNCHANGED <<current_hour, fed, parser_vars>>

Next ==
    \/ ParserSystemEvent
    \/ ParserStockDirectory
    \/ ParserAddOrderA
    \/ ParserAddOrderF
    \/ ParserOrderReplace
    \/ ParserOrderDelete
    \/ ParserOrderExecutedE
    \/ ParserOrderExecutedC
    \/ ParserTrade
    \/ VwapTrade
    \/ ReadIgnored
    \/ ReadUnknown
    \/ ReadShort
    \/ ReadEnd

Spec == Init /\ [][Next]_vars

-----------------------------------------------------------------------------
(* Properties: engine/parser.py *)

\* This step of parser.ITCH.parse read a body of type t in full.
ParserRead(t) ==
    /\ prog = "parser"
    /\ count' = count + 1
    /\ header' = t
    /\ msg'.len = m_map[t]

LastExecution == executions[Len(executions)]

\* C1: an E message that cites a reference in the order book is recorded
\* with the price the book holds for that reference when the message
\* arrives.  That price is the one the latest A or F message for the
\* reference, or the latest U message that replaced into it, has set:
\* executions (E, C) leave the price of every order that stays in the book
\* as it was.
C1_ExecutedPricedFromBook ==
    [][/\ (ParserRead("E") /\ msg'.ref \in DOMAIN order_book)
            => /\ Len(executions') = Len(executions) + 1
               /\ executions'[Len(executions')].price
                    = order_book[msg'.ref].price
       /\ (ParserRead("E") \/ ParserRead("C"))
            => \A r \in DOMAIN order_book \cap DOMAIN order_book' :
                    order_book'[r].price = order_book[r].price
       /\ (ParserRead("A") \/ ParserRead("F"))
            => order_book'[msg'.ref].price = msg'.price
       /\ (ParserRead("U") /\ msg'.old_ref \in DOMAIN order_book)
            => order_book'[msg'.new_ref].price = msg'.price
      ]_vars

\* C1 witness: an order was added, executed in part, and executed again; both
\* executions carry the price of the add.
C1_Witness ==
    /\ prog = "parser"
    /\ header = "E"
    /\ msg.len = m_map.E
    /\ Len(snapshots) = 3
    /\ Len(executions) = 2
    /\ executions[1].stock = "AAPL"
    /\ executions[1].volume = 1
    /\ executions[1].price = 1600000
    /\ executions[2].price = 1600000
    /\ snapshots[1].best_bid = <<1600000, 2>>
    /\ snapshots[2].best_bid = <<1600000, 1>>
    /\ order_book = <<>>

\* C2: an E message whose reference is not in the order book still records
\* one execution, with price 0 and the shares of the message; the order
\* book is unchanged and the loop goes on.
C2_ExecutedUnknownRef ==
    [][(ParserRead("E") /\ msg'.ref \notin DOMAIN order_book)
            => /\ Len(executions') = Len(executions) + 1
               /\ SubSeq(executions', 1, Len(executions)) = executions
               /\ executions'[Len(executions')].price = 0
               /\ executions'[Len(executions')].volume = msg'.shares
               /\ order_book' = order_book
               /\ pc' = "run"
      ]_vars

\* C2 witness: after a priced execution, an E message for a reference that is
\* not in the book was recorded with price 0.
C2_Witness ==
    /\ prog = "parser"
    /\ header = "E"
    /\ msg.len = m_map.E
    /\ msg.ref \notin DOMAIN order_book
    /\ Len(executions) = 2
    /\ executions[1].price # 0
    /\ executions[2].price = 0
    /\ executions[2].volume = msg.shares
    /\ order_book # <<>>
    /\ pc = "run"

\* C3: a C message whose printable flag is not "Y" records no execution and
\* leaves the order book and the snapshots unchanged.
C3_NonPrintableDiscarded ==
    [][(ParserRead("C") /\ msg'.printable # "Y")
            => UNCHANGED <<executions, order_book, snapshots>>
      ]_vars

\* C3 witness: a non-printable C message named an order of the book that it
\* could have filled, and nothing was recorded.
C3_Witness ==
    /\ prog = "parser"
    /\ header = "C"
    /\ msg.len = m_map.C
    /\ msg.printable = "N"
    /\ msg.ref \in DOMAIN order_book
    /\ order_book[msg.ref].volume = msg.shares
    /\ executions = <<>>
    /\ Len(snapshots) = 1

\* C4: the step that reads a system event with code "M" ends the parse, and
\* once the parse has ended nothing changes the executions, the order book,
\* the symbol directory or the snapshots.
C4_StopsAtMarketClose ==
    [][/\ market_close' # None => pc' = "done"
       /\ pc = "done"
            => UNCHANGED <<executions, order_book, stock_map, snapshots>>
      ]_vars

\* C4 witness: market close was read while the input could still go on (no
\* read has hit the end of the file, and the bounds leave room for more).
C4_Witness ==
    /\ prog = "parser"
    /\ pc = "done"
    /\ market_close # None
    /\ header = "S"
    /\ msg.event_code = "M"
    /\ ~eof
    /\ count < MaxIter
    /\ pos + 1 + m_map.P <= BytesLimit
    /\ executions # <<>>
    /\ csv.executions = executions

\* C5: in both parse loops, a type byte that is not in the size table reads
\* no body and changes nothing of the parser: the file offset moves by the
\* one type byte, so the next byte is read as the next type byte.
C5_UnknownTypeSkipsOneByte ==
    [][(count' = count + 1 /\ header' \notin DOMAIN SizeTable)
            => /\ pos' = pos + 1
               /\ msg' = NoMsg
               /\ pc' = "run"
               /\ UNCHANGED <<parser_vars, vwap_vars>>
      ]_vars

\* C5 witness: hourly_vwap read J, which its table does not hold, after a
\* trade; the offset is one past the trade.
C5_Witness ==
    /\ prog = "hourly_vwap"
    /\ header = "J"
    /\ count = 2
    /\ pos = 1 + record_sizes.P + 1
    /\ Len(trades) = 1

\* C9 as stated: entries are created by A and F messages only, and an entry
\* once created is never deleted.
C9_NeverDeleted ==
    [][/\ DOMAIN order_book \subseteq DOMAIN order_book'
       /\ DOMAIN order_book' # DOMAIN order_book => header' \in {"A", "F"}
      ]_vars

\* C9 amended: an entry is created by an A or F message for its reference
\* or by a U message that replaces an order of the book into it; an entry
\* is deleted only by a D message for it, by a U message that names it as
\* the original reference (and another as the new one), or by an E or
\* printable C execution of exactly its remaining volume.
C9_CreatedAndDeletedBy ==
    [][/\ \A r \in DOMAIN order_book' \ DOMAIN order_book :
            \/ (ParserRead("A") \/ ParserRead("F")) /\ msg'.ref = r
            \/ /\ ParserRead("U")
               /\ msg'.new_ref = r
               /\ msg'.old_ref \in DOMAIN order_book
       /\ \A r \in DOMAIN order_book \ DOMAIN order_book' :
            \/ ParserRead("D") /\ msg'.ref = r
            \/ ParserRead("U") /\ msg'.old_ref = r /\ msg'.new_ref # r
            \/ /\ ParserRead("E") \/ (ParserRead("C") /\ msg'.printable = "Y")
               /\ msg'.ref = r
               /\ order_book[r].volume = msg'.shares
      ]_vars

\* C9 witness: an order was added and a D message has deleted it.
C9_Witness ==
    /\ prog = "parser"
    /\ header = "D"
    /\ msg.len = m_map.D
    /\ Len(snapshots) = 2
    /\ snapshots[1].best_ask # None
    /\ snapshots[2].best_ask = None
    /\ order_book = <<>>

\* C10: a P message read in full appends one execution made of the symbol,
\* price and shares of the message, whatever the order book holds, and
\* leaves the order book and the snapshots unchanged.
C10_TradeRecordedFromMessage ==
    [][ParserRead("P")
            => /\ Len(executions') = Len(executions) + 1
               /\ SubSeq(executions', 1, Len(executions)) = executions
               /\ executions'[Len(executions')].stock = msg'.symbol
               /\ executions'[Len(executions')].price = msg'.price
               /\ executions'[Len(executions')].volume = msg'.shares
               /\ UNCHANGED <<order_book, snapshots>>
      ]_vars

\* C10 witness: a trade was recorded while the book held an order on the
\* same symbol at another price.
C10_Witness ==
    /\ prog = "parser"
    /\ header = "P"
    /\ msg.len = m_map.P
    /\ order_book # <<>>
    /\ \E r \in DOMAIN order_book :
            /\ order_book[r].stock = msg.symbol
            /\ order_book[r].price # msg.price
    /\ LastExecution.price = msg.price
    /\ LastExecution.stock = msg.symbol
    /\ Len(snapshots) = 1

-----------------------------------------------------------------------------
(* Properties: engine/hourly_vwap.py *)

RECURSIVE SetSum(_, _)
\* The sum of f[i] over the indices i of S.
SetSum(f, S) ==
    IF S = {} THEN 0
    ELSE LET i == CHOOSE j \in S : TRUE
         IN  f[i] + SetSum(f, S \ {i})

\* Notional (in ticks) and volume of the trades of symbol s among the trades
\* fed[i], i in S.
NotionalOf(S, s) ==
    SetSum([i \in DOMAIN fed |-> fed[i].price * fed[i].volume],
           {i \in S : fed[i].symbol = s})

VolumeOf(S, s) ==
    SetSum([i \in DOMAIN fed |-> fed[i].volume], {i \in S : fed[i].symbol = s})

\* The key of the hourly bucket of a timestamp, in hours: floor(ts / 1 h).
BucketHour(ts) == ts[1] \div 3600

\* The trades whose timestamp lies in hour h.
InBucket(h) == {i \in DOMAIN fed : BucketHour(fed[i].ts) = h}

\* The trades of hour h, and of the hours up to h, in the feed, by the hour
\* process_trade gives them.
InHour(h) == {i \in DOMAIN fed : fed[i].time[1] = h}

UpToHour(h) == {i \in DOMAIN fed : fed[i].time[1] <= h}

\* v is amount / volume rounded to 2 decimals (to a nearest cent, whatever
\* the rule for ties), amount in ticks and volume > 0.
IsRounded(v, amount, volume) ==
    /\ Len(v) = 1
    /\ LET d == amount - 100 * volume * v[1]
       IN  2 * (IF d < 0 THEN -d ELSE d) <= 100 * volume

\* The hours of the timestamps of the feed are non-decreasing in stream
\* order.
MonotoneTimestamps ==
    \A i, j \in DOMAIN fed :
        i <= j => BucketHour(fed[i].ts) <= BucketHour(fed[j].ts)

\* The hours process_trade gives the trades are non-decreasing in stream
\* order.
Monotone ==
    \A i, j \in DOMAIN fed : i <= j => fed[i].time[1] <= fed[j].time[1]

FeedDone == prog = "hourly_vwap" /\ pc = "done"

\* C6: when parse has returned on a feed of trades whose hours (of their
\* timestamps) are non-decreasing, the output of every hour h that has
\* trades holds exactly one row for each symbol s traded in h and no other
\* row; the row is labelled hh:00:00 and its vwap is sum(price * volume) /
\* sum(volume) over the trades of s in hour h only, rounded to 2 decimals
\* (the quotient is compared where the volume summed is positive).
C6_HourlyVwapPerSymbol ==
    (FeedDone /\ MonotoneTimestamps) =>
        \A i \in DOMAIN fed :
            LET h == BucketHour(fed[i].ts)
                s == fed[i].symbol
                f == TwoDigits(h)
            IN  /\ f \in DOMAIN outputs
                /\ Cardinality({r \in outputs[f] : r.symbol = s}) = 1
                /\ \A r \in outputs[f] :
                        /\ r.time = <<h, 0, 0>>
                        /\ \E k \in InBucket(h) : fed[k].symbol = r.symbol
                        /\ (r.symbol = s /\ VolumeOf(InBucket(h), s) > 0)
                            => IsRounded(r.vwap, NotionalOf(InBucket(h), s),
                                         VolumeOf(InBucket(h), s))

\* C6 witness: two trades of one symbol at different prices in hour 0 and a
\* trade of the same symbol in hour 1; the row of hour 0 is 153.33 and the
\* row of hour 1 is the price of its one trade.
C6_Witness ==
    /\ FeedDone
    /\ Monotone
    /\ Len(fed) = 3
    /\ \A i \in DOMAIN fed : fed[i].symbol = "AAPL"
    /\ fed[1].price # fed[2].price
    /\ DOMAIN outputs = {"00", "01"}
    /\ outputs["00"] =
            {[time |-> <<0, 0, 0>>, symbol |-> "AAPL", vwap |-> <<15333>>]}
    /\ outputs["01"] =
            {[time |-> <<1, 0, 0>>, symbol |-> "AAPL", vwap |-> <<16000>>]}

C8_EveryTradeCountedOnce ==
    FeedDone =>
        \A i \in {k \in DOMAIN fed : fed[k].volume > 0} :
            /\ Cardinality({f \in DOMAIN outputs : i \in src[f]}) = 1
            /\ \A f \in DOMAIN outputs :
                    i \in src[f] => \E r \in outputs[f] : r.symbol = fed[i].symbol

\* C11: a printable C message is recorded with the price the message
\* carries, whether or not its reference is in the order book and whatever
\* price the book holds for it.
C11_PrintableExecutedAtOwnPrice ==
    [][(ParserRead("C") /\ msg'.printable = "Y")
            => /\ Len(executions') = Len(executions) + 1
               /\ SubSeq(executions', 1, Len(executions)) = executions
               /\ executions'[Len(executions')].price = msg'.price
      ]_vars

\* C11 witness: a printable C message executed part of an order that the
\* book holds at another price, and the record carries the message's price.
C11_Witness ==
    /\ prog = "parser"
    /\ header = "C"
    /\ msg.len = m_map.C
    /\ msg.printable = "Y"
    /\ msg.ref \in DOMAIN order_book
    /\ order_book[msg.ref].price # msg.price
    /\ Len(snapshots) = 2
    /\ Len(executions) = 1
    /\ executions[1].price = msg.price
    /\ executions[1].stock = "AAPL"

\* This step of parser.ITCH.parse read a message that records an execution:
\* a P message in full, or an E or printable C message in full.
ParserReadRecorded ==
    \/ ParserRead("P")
    \/ ParserRead("E")
    \/ ParserRead("C") /\ msg'.printable = "Y"

\* C12: the executions list grows by exactly one record, put at its end and
\* made of the shares and the time of the message, at each P, E and
\* printable C message read in full while the loop runs; no other step
\* (another message, a short or unknown read, market close, the end of the
\* input) adds, removes or reorders a record.  The list starts empty, so it
\* holds the records of those messages in stream order.
C12_ExecutionsInStreamOrder ==
    [][IF ParserReadRecorded
       THEN /\ pc = "run"
            /\ Len(executions') = Len(executions) + 1
            /\ SubSeq(executions', 1, Len(executions)) = executions
            /\ executions'[Len(executions')].volume = msg'.shares
            /\ executions'[Len(executions')].timestamp
                    = convert_timestamp(msg'.ts)
       ELSE executions' = executions
      ]_vars

\* C12 witness: three messages were read, a P message, a system event and
\* then an E message; the list holds the record of the trade and after it
\* the record of the execution.
C12_Witness ==
    /\ prog = "parser"
    /\ count = 3
    /\ market_open # None
    /\ header = "E"
    /\ msg.len = m_map.E
    /\ Len(executions) = 2
    /\ executions[1].stock = "MSFT"
    /\ executions[1].price = 1600000
    /\ executions[1].timestamp = <<1, 0, 0>>
    /\ executions[2].stock = "UNKNOWN"
    /\ executions[2].volume = msg.shares
    /\ executions[2].timestamp = <<1, 1, 1>>

\* This step read the type byte of a known type and then fewer bytes than
\* the size table gives for it: the input ended inside the body.
ShortRead ==
    /\ count' = count + 1
    /\ header' \in DOMAIN SizeTable
    /\ msg'.len < SizeTable[header']

\* C13: when the input ends inside the body of a known type, the partial
\* body changes nothing (no trade, execution, directory entry, order-book
\* entry, snapshot or output), the loop does not raise but goes on to its
\* next read, and that read ends the parse; in hourly_vwap a feed that is
\* only a truncated P message ends with no output file.
C13_ShortReadEndsStream ==
    [][/\ ShortRead
            => /\ UNCHANGED <<parser_vars, vwap_vars>>
               /\ pc' = "run"
               /\ eof'
       /\ (eof /\ pc = "run")
            => /\ pc' = "done"
               /\ header' = ""
               /\ UNCHANGED <<pos, count, order_book, stock_map, executions,
                              snapshots, fed>>
       /\ (prog = "hourly_vwap" /\ pc' = "done" /\ count' = 1
                /\ pos' = record_sizes.P)
            => outputs' = <<>>
      ]_vars

\* C13 witness: parser.ITCH.parse read a trade and then a P type byte with
\* 42 bytes after it; the executions hold the one trade.
C13_Witness ==
    /\ prog = "parser"
    /\ pc = "run"
    /\ eof
    /\ count = 2
    /\ header = "P"
    /\ msg.len = m_map.P - 1
    /\ pos = 1 + m_map.P + m_map.P
    /\ Len(executions) = 1

\* The input has ended inside a body (a short read) and the loop has not yet
\* come back to read the next type byte.
AfterShortRead == eof /\ pc = "run"

\* C14 as stated: a short read aborts the run, so that what was built from
\* the messages before the truncated one is written to no output file.
C14_ShortReadAbortsRun ==
    [][(AfterShortRead /\ (executions # <<>> \/ trades # <<>>))
            => /\ DOMAIN csv' = DOMAIN csv
               /\ DOMAIN outputs' = DOMAIN outputs
      ]_vars

\* C14 amended: a short read on the body of a known type is not fatal: the
\* parse ends at the next read and writes its outputs as at any end of
\* input.  parser.ITCH writes the executions, the order book and the
\* snapshots built from the messages before the truncated one;
\* hourly_vwap.ITCH flushes the trades still buffered to the output of their
\* hour, with a row for the symbol of each, and leaves the other outputs.
C14_ShortReadStillWritesOutputs ==
    [][AfterShortRead
            => /\ pc' = "done"
               /\ prog = "parser"
                    => /\ DOMAIN csv' = {"order_book", "executions", "snapshots"}
                       /\ csv'.executions = executions
                       /\ csv'.order_book = order_book
                       /\ csv'.snapshots = snapshots
               /\ (prog = "hourly_vwap" /\ trades # <<>>)
                    => /\ current_hour \in DOMAIN outputs'
                       /\ \A i \in DOMAIN trades :
                            \E r \in outputs'[current_hour] :
                                r.symbol = trades[i].symbol
                       /\ \A f \in DOMAIN outputs \ {current_hour} :
                            outputs'[f] = outputs[f]
               /\ (prog = "hourly_vwap" /\ trades = <<>>)
                    => DOMAIN outputs' = DOMAIN outputs
      ]_vars

\* C14 witness: parser.ITCH.parse read a trade in full and then a truncated
\* P message (44 + 43 bytes in two iterations); parse has returned and
\* output/executions.csv holds the trade.
C14_Witness ==
    /\ prog = "parser"
    /\ pc = "done"
    /\ eof
    /\ count = 2
    /\ pos = 1 + m_map.P + m_map.P
    /\ Len(executions) = 1
    /\ DOMAIN csv = {"order_book", "executions", "snapshots"}
    /\ csv.executions = executions

\* The type byte read by the last iteration of parser.ITCH.parse is in no
\* size table: the bytes that follow it are what the sender meant as the
\* payload of the unknown message.
AfterUnknownType ==
    /\ prog = "parser"
    /\ pc = "run"
    /\ header # ""
    /\ header \notin DOMAIN m_map

\* C15 as stated: an unknown type byte is skipped together with its payload,
\* so whatever byte follows the unknown type byte adds no record to the
\* executions and does not change the order book.
C15_UnknownSkippedWithPayload ==
    [][AfterUnknownType => UNCHANGED <<executions, order_book>>]_vars

\* C15 amended: an unknown type byte is skipped without error and alone: the
\* step that reads it consumes that one byte, adds no record and does not
\* change the order book.  The bytes after it are not skipped as a payload
\* but read as the next type bytes: one that is unknown too is skipped in
\* the same way, and one that is a known type is framed and handled as a
\* message (a P message there is recorded as an execution).
C15_UnknownSkippedAlone ==
    [][/\ (prog = "parser" /\ count' = count + 1
                /\ header' \notin DOMAIN m_map)
            => /\ pos' = pos + 1
               /\ pc' = "run"
               /\ UNCHANGED <<executions, order_book>>
       /\ (AfterUnknownType /\ ParserRead("P"))
            => /\ pos' = pos + 1 + m_map.P
               /\ Len(executions') = Len(executions) + 1
               /\ executions'[Len(executions')].stock = msg'.symbol
               /\ executions'[Len(executions')].volume = msg'.shares
      ]_vars

\* C15 witness: an unknown type byte, then a P message where its payload
\* would be: the offset is 1 + 44 and the trade is in the executions.
C15_Witness ==
    /\ prog = "parser"
    /\ count = 2
    /\ pos = 1 + 1 + m_map.P
    /\ header = "P"
    /\ msg.len = m_map.P
    /\ Len(executions) = 1
    /\ executions[1].stock = msg.symbol

\* The canonical size table of the ITCH 5.0 framing: body length by type.
CanonicalSizes ==
    [S |-> 11, R |-> 38, H |-> 24, Y |-> 19, L |-> 25, V |-> 34, W |-> 11,
     K |-> 27, J |-> 34, h |-> 20, A |-> 35, F |-> 39, E |-> 30, C |-> 35,
     X |-> 22, D |-> 18, U |-> 34, P |-> 43, Q |-> 39, B |-> 18, I |-> 49,
     N |-> 19]

\* C16: both parse loops know exactly the 22 types of the canonical size
\* table with its body lengths, so both frame a stream in the same way: a
\* type byte of the table is followed by a body of its length (in a file
\* that holds it), and only a type byte outside the table is read alone.
C16_BothReadersUseCanonicalTable ==
    [][(count' = count + 1 /\ ~eof')
            => IF header' \in DOMAIN CanonicalSizes
               THEN /\ msg'.len = CanonicalSizes[header']
                    /\ pos' = pos + 1 + CanonicalSizes[header']
               ELSE /\ msg' = NoMsg
                    /\ pos' = pos + 1
      ]_vars

-----------------------------------------------------------------------------
(* Termination *)

\* The interpreter runs the loop on: a step that can be taken is taken.
LiveSpec == Spec /\ WF_vars(Next)

\* C17: on a finite input both parse loops terminate.  Each iteration either
\* moves the file offset forward by at least one byte or leaves the loop,
\* the loop is left only when no type byte can be read (end of input) or,
\* in parser.ITCH, on a market-close event, nothing runs after it, and
\* every run gets there.
C17_ParseTerminates ==
    /\ [][/\ pc = "run" => (pos' > pos \/ pc' = "done")
          /\ (pc = "run" /\ pc' = "done")
                => \/ header' = "" /\ pos' = pos
                   \/ /\ prog = "parser"
                      /\ header' = "S"
                      /\ msg'.len = m_map.S
                      /\ msg'.event_code = "M"
          /\ pc = "done" => pc' = "done"
         ]_vars
    /\ <>(pc = "done")

\* C17 witness: hourly_vwap.ITCH.parse has returned after three iterations
\* that read an unknown byte, a trade and another unknown byte: 46 bytes.
C17_Witness ==
    /\ prog = "hourly_vwap"
    /\ pc = "done"
    /\ count = 3
    /\ pos = 1 + (1 + record_sizes.P) + 1
    /\ Len(fed) = 1
    /\ DOMAIN outputs # {}

\* C18: after an A or F message for reference r the order book holds at r
\* the entry made of the stock, price, shares and side of the message, in
\* place of any entry it held at r before, and holds every other reference
\* as before.  The entry is the same function of these fields for F as for
\* A: the MPID of an F message does not enter it.
C18_AddOrderSetsEntry ==
    [][(ParserRead("A") \/ ParserRead("F"))
            => /\ DOMAIN order_book' = DOMAIN order_book \cup {msg'.ref}
               /\ order_book'[msg'.ref] =
                    [stock |-> msg'.stock, price |-> msg'.price,
                     volume |-> msg'.shares, side |-> msg'.side]
               /\ \A r \in DOMAIN order_book \ {msg'.ref} :
                    order_book'[r] = order_book[r]
      ]_vars

\* C18 witness: an F message with an MPID has replaced the entry that an
\* earlier message added for the same reference at another price.
C18_Witness ==
    /\ prog = "parser"
    /\ header = "F"
    /\ msg.len = m_map.F
    /\ msg.mpid = "ARCA"
    /\ msg.side = "B"
    /\ Len(snapshots) = 2
    /\ DOMAIN order_book = {msg.ref}
    /\ order_book[msg.ref].price = msg.price
    /\ snapshots[1].best_bid # None
    /\ snapshots[1].best_bid[1] # msg.price
    /\ snapshots[2].best_bid = <<msg.price, msg.shares>>

\* C19: an R message sets the entry of its stock-locate code in the symbol
\* directory to its ticker, over any entry the code had, without raising,
\* and leaves the entry of every other code as it was; no other step
\* changes the directory.  So the directory maps each code to the ticker of
\* the most recent R message for it.
C19_DirectoryHoldsLatestTicker ==
    [][IF ParserRead("R")
       THEN /\ DOMAIN stock_map' = DOMAIN stock_map \cup {msg'.locate}
            /\ stock_map'[msg'.locate] = msg'.ticker
            /\ \A l \in DOMAIN stock_map \ {msg'.locate} :
                    stock_map'[l] = stock_map[l]
            /\ pc' = "run"
       ELSE stock_map' = stock_map
      ]_vars

\* C19 witness: two R messages were read (2 * 39 bytes) and the directory
\* holds one code: the second message announced the code of the first
\* again, and the directory holds the ticker of the second.
C19_Witness ==
    /\ prog = "parser"
    /\ count = 2
    /\ pos = 2 * (1 + m_map.R)
    /\ header = "R"
    /\ msg.len = m_map.R
    /\ msg.ticker = "MSFT"
    /\ DOMAIN stock_map = {msg.locate}
    /\ stock_map[msg.locate] = "MSFT"

\* C20: a trade with timestamp ts belongs to the bucket floor(ts / 1 h): the
\* row it contributes to in hourly_vwap.ITCH is labelled with that hour,
\* HH:00:00, and it is buffered for the output of that hour, for every
\* timestamp a trade can carry.
C20_TradeInFloorBucket ==
    [][(prog = "hourly_vwap" /\ count' = count + 1 /\ header' = "P"
            /\ msg'.len = record_sizes.P)
            => /\ Len(trades') > 0
               /\ trades'[Len(trades')].time[1] = BucketHour(msg'.ts)
               /\ current_hour' = TwoDigits(BucketHour(msg'.ts))
      ]_vars

\* The widest window a run can select, the whole day [00:00, 24:00), as
\* <<seconds, nanoseconds>> bounds.
WindowStart == <<0, 0>>
WindowEnd == <<86400, 0>>

TsBefore(a, b) == a[1] < b[1] \/ (a[1] = b[1] /\ a[2] < b[2])

OutsideWindow(ts) == TsBefore(ts, WindowStart) \/ ~TsBefore(ts, WindowEnd)

\* C21: an execution whose timestamp lies outside the selected window
\* (ts < start_ns or ts >= end_ns) affects no output cell: no trade outside
\* the window is among the trades an output of hourly_vwap.ITCH is computed
\* from, here for the widest window, the whole day.
C21_OutsideWindowNoEffect ==
    prog = "hourly_vwap" =>
        \A f \in DOMAIN src : \A i \in src[f] : ~OutsideWindow(fed[i].ts)

\* The buckets of the whole-day window at the granularity of one hour:
\* ceil((end_ns - start_ns) / gran_ns) of them, numbered from 0.
WindowBuckets == 0 .. ((WindowEnd[1] - WindowStart[1]) \div 3600 - 1)

TradedSymbols == {fed[i].symbol : i \in DOMAIN fed}

\* C22: the output covers the whole window densely: for every symbol a value
\* is emitted for each of the ceil((end_ns - start_ns) / gran_ns) buckets of
\* the window, a bucket with no execution included.
C22_EveryBucketEmitted ==
    FeedDone =>
        \A s \in TradedSymbols : \A k \in WindowBuckets :
            /\ TwoDigits(k) \in DOMAIN outputs
            /\ \E r \in outputs[TwoDigits(k)] : r.symbol = s

\* C22 as amended: when parse has returned, an output exists for exactly the
\* hours process_trade gave to at least one trade of the feed, and a row of
\* an output names a symbol that has a trade of that hour; an hour without
\* trades, and a symbol without trades in the hour, are omitted.
C22_OnlyTradedBucketsEmitted ==
    FeedDone =>
        /\ DOMAIN outputs = {TwoDigits(fed[i].time[1]) : i \in DOMAIN fed}
        /\ \A f \in DOMAIN outputs : \A r \in outputs[f] :
              \E i \in DOMAIN fed :
                  TwoDigits(fed[i].time[1]) = f /\ fed[i].symbol = r.symbol

\* C22 witness: two symbols were traded, each in its own hour; the output of
\* hour 00 has a row for AAPL only, that of hour 01 for MSFT only, and no
\* other hour has an output.
C22_Witness ==
    /\ FeedDone
    /\ DOMAIN outputs = {"00", "01"}
    /\ {r.symbol : r \in outputs["00"]} = {"AAPL"}
    /\ {r.symbol : r \in outputs["01"]} = {"MSFT"}

\* C23: the VWAP of a cell whose total quantity is 0 (a bucket whose only
\* trades of the symbol have 0 shares) is 0, and no not-a-number value is
\* produced: every row of every output has a number as its vwap, and the
\* number is 0 when the trades the row was computed from sum to 0 shares.
C23_ZeroQuantityVwapIsZero ==
    prog = "hourly_vwap" =>
        \A f \in DOMAIN outputs : \A r \in outputs[f] :
            /\ r.vwap # NaN
            /\ VolumeOf(src[f], r.symbol) = 0 => r.vwap = <<0>>

-----------------------------------------------------------------------------
(* The P message as bytes: tests/test_parser.py builds the body,
   process_trade_P and process_trade decode it *)

\* A nanosecond count below 2^48 is <<seconds, nanoseconds>>, as everywhere in
\* this module; an integer below 2^32 is <<high, low>> in base 65536.  A body
\* is a sequence of bytes, body[i + 1] being the byte at offset i.

\* value.to_bytes(6, byteorder='big') for a nanosecond count: the quotient and
\* the remainder of one division by 256, and the n low bytes.
DivMod256(t) ==
    LET t2 == ((t[1] % 256) * 100000) + (t[2] \div 10000)
        t3 == ((t2 % 256) * 10000) + (t[2] % 10000)
    IN  [q |-> <<t[1] \div 256, ((t2 \div 256) * 10000) + (t3 \div 256)>>,
         r |-> t3 % 256]

RECURSIVE to_bytes(_, _)
to_bytes(t, n) ==
    IF n = 0 THEN <<>>
    ELSE Append(to_bytes(DivMod256(t).q, n - 1), DivMod256(t).r)

\* int.from_bytes(b, byteorder='big') for a nanosecond count: the bytes are
\* taken most significant first, the value starting from 0 (zero-extended).
RECURSIVE from_bytes(_)
from_bytes(b) ==
    IF b = <<>> THEN <<0, 0>>
    ELSE LET t  == from_bytes(SubSeq(b, 1, Len(b) - 1))
             lo == ((t[2] % 10000) * 256) + b[Len(b)]
             hi == ((t[2] \div 10000) * 256) + (lo \div 10000)
         IN  <<(t[1] * 256) + (hi \div 100000),
               ((hi % 100000) * 10000) + (lo % 10000)>>

\* The same two conversions for a 4-byte integer.
to_bytes4(v) == <<v[1] \div 256, v[1] % 256, v[2] \div 256, v[2] % 256>>

from_bytes4(b) == <<b[1] * 256 + b[2], b[3] * 256 + b[4]>>

\* symbol.ljust(8, b' ')
ljust(s) == s \o [i \in 1 .. (8 - Len(s)) |-> 32]

\* The characters str.strip() removes: ASCII white space.
Whitespace == {9, 10, 11, 12, 13, 28, 29, 30, 31, 32}

RECURSIVE lstrip(_)
lstrip(s) ==
    IF s # <<>> /\ s[1] \in Whitespace THEN lstrip(Tail(s)) ELSE s

RECURSIVE rstrip(_)
rstrip(s) ==
    IF s # <<>> /\ s[Len(s)] \in Whitespace
    THEN rstrip(SubSeq(s, 1, Len(s) - 1)) ELSE s

\* msg[23:31].decode('ascii').strip(): the characters of an ASCII field are
\* its bytes; white space is removed on both sides.
strip(s) == lstrip(rstrip(s))

\* bytearray(n)
Zeros(n) == [i \in 1 .. n |-> 0]

\* create_dummy_trade(timestamp, volume, price, symbol), with price_int =
\* int(price * 10000) given as the ticks: the 43 bytes of the body.
create_dummy_trade(timestamp, volume, price_int, symbol) ==
    Zeros(4) \o to_bytes(timestamp, 6) \o Zeros(9) \o to_bytes4(volume)
        \o ljust(symbol) \o to_bytes4(price_int) \o Zeros(8)

\* The layout with the timestamp at offset 2, the shares at offset 14 and the
\* price at offset 22.
process_trade_P_Offsets(body) ==
    IF Len(body) # 43 THEN None
    ELSE [time   |-> convert_timestamp(from_bytes(SubSeq(body, 3, 8))),
          symbol |-> strip(SubSeq(body, 24, 31)),
          price  |-> from_bytes4(SubSeq(body, 23, 26)),
          volume |-> from_bytes4(SubSeq(body, 15, 18))]

\* process_trade_P(msg): trade_data = [time_str, symbol, price, volume], the
\* price in ticks of 1/10000 (price_int / 10000.0); None for another length.
process_trade_P(body) ==
    IF Len(body) # 43 THEN None
    ELSE [time   |-> convert_timestamp(from_bytes(SubSeq(body, 5, 10))),
          symbol |-> strip(SubSeq(body, 24, 31)),
          price  |-> from_bytes4(SubSeq(body, 32, 35)),
          volume |-> from_bytes4(SubSeq(body, 20, 23))]

\* hourly_vwap's process_trade(msg): the same layout.
process_trade(body) ==
    IF Len(body) # 43 THEN None
    ELSE [time   |-> convert_timestamp(from_bytes(SubSeq(body, 5, 10))),
          symbol |-> strip(SubSeq(body, 24, 31)),
          price  |-> from_bytes4(SubSeq(body, 32, 35)),
          volume |-> from_bytes4(SubSeq(body, 20, 23))]

\* The values a trade message is built from: timestamps up to 2^48 - 1,
\* volumes and ticks up to 2^32 - 1, symbols of up to 8 ASCII characters
\* (XYZ, AAPL, ABCDEFGH, and AB after a space).
TradeTimes ==
    {<<0, 0>>, <<3661, 0>>, <<3599, 999999600>>, <<86399, 999999999>>,
     <<281474, 976710655>>}
TradeVolumes == {<<0, 0>>, <<0, 123>>, <<65535, 65535>>}
TradeTicks == {<<3, 3392>>, <<22, 63886>>, <<65535, 65535>>}
TradeSymbols ==
    {<<88, 89, 90>>, <<65, 65, 80, 76>>, <<65, 66, 67, 68, 69, 70, 71, 72>>,
     <<32, 65, 66>>}

\* One trade message is built and handed to process_trade_P (prog = "parser")
\* or to process_trade (prog = "hourly_vwap").
TradeInit ==
    /\ prog \in {"parser", "hourly_vwap"}
    /\ pc = "build"
    /\ pos = 0
    /\ count = 0
    /\ eof = FALSE
    /\ header = ""
    /\ msg = NoMsg
    /\ order_book = <<>>
    /\ stock_map = <<>>
    /\ executions = <<>>
    /\ snapshots = <<>>
    /\ market_open = None
    /\ market_close = None
    /\ csv = <<>>
    /\ trades = <<>>
    /\ current_hour = "None"
    /\ outputs = <<>>
    /\ fed = <<>>
    /\ src = <<>>

TradeBuild ==
    /\ pc = "build"
    /\ \E t \in TradeTimes, v \in TradeVolumes, p \in TradeTicks,
          s \in TradeSymbols :
            msg' = [len       |-> 43,
                    timestamp |-> t,
                    volume    |-> v,
                    price_int |-> p,
                    symbol    |-> s,
                    body      |-> create_dummy_trade(t, v, p, s)]
    /\ pc' = "parse"
    /\ header' = "P"
    /\ UNCHANGED <<prog, pos, count, eof, parser_vars, vwap_vars>>

TradeParseP ==
    /\ prog = "parser"
    /\ pc = "parse"
    /\ executions' = <<process_trade_P(msg.body)>>
    /\ pc' = "done"
    /\ UNCHANGED <<prog, pos, count, eof, header, msg, order_book, stock_map,
                   snapshots, market_open, market_close, csv, vwap_vars>>

TradeParse ==
    /\ prog = "hourly_vwap"
    /\ pc = "parse"
    /\ trades' = <<process_trade(msg.body)>>
    /\ pc' = "done"
    /\ UNCHANGED <<prog, pos, count, eof, header, msg, parser_vars,
                   current_hour, outputs, fed, src>>

TradeNext == TradeBuild \/ TradeParseP \/ TradeParse

TradeSpec == TradeInit /\ [][TradeNext]_vars

\* The trade handed back by the decoder, once it has run.
Parsed == IF prog = "parser" THEN executions[1] ELSE trades[1]

TradeParsed == pc = "done" /\ msg.len = 43 /\ "body" \in DOMAIN msg

-----------------------------------------------------------------------------
(* Properties: the bytes of the P message *)

\* C24: a P message body is decoded with the 6-byte big-endian timestamp at
\* offset 2, the 4-byte big-endian share count at offset 14 and the 4-byte
\* big-endian price at offset 22 (the stock-locate, at offset 0, is not
\* decoded).
C24_LayoutAsClaimed ==
    TradeParsed =>
        /\ Parsed.time = convert_timestamp(from_bytes(SubSeq(msg.body, 3, 8)))
        /\ Parsed.volume = from_bytes4(SubSeq(msg.body, 15, 18))
        /\ Parsed.price = from_bytes4(SubSeq(msg.body, 23, 26))

\* C24 as amended: the timestamp is decoded from the 6 bytes at offset 4, the
\* share count from the 4 bytes at offset 19 and the price from the 4 bytes
\* at offset 31, each big-endian, by process_trade_P and by process_trade.
C24_LayoutOfCode ==
    TradeParsed =>
        /\ Parsed.time = convert_timestamp(from_bytes(SubSeq(msg.body, 5, 10)))
        /\ Parsed.volume = from_bytes4(SubSeq(msg.body, 20, 23))
        /\ Parsed.price = from_bytes4(SubSeq(msg.body, 32, 35))

\* C24 witness: process_trade_P has decoded a body whose bytes at offsets 4,
\* 19 and 31 hold 3661 s, 123 shares and 1505678 ticks, and whose bytes at
\* offsets 2, 14 and 22 hold other values.
C24_Witness ==
    /\ TradeParsed
    /\ prog = "parser"
    /\ SubSeq(msg.body, 5, 10) = to_bytes(<<3661, 0>>, 6)
    /\ SubSeq(msg.body, 20, 23) = to_bytes4(<<0, 123>>)
    /\ SubSeq(msg.body, 32, 35) = to_bytes4(<<22, 63886>>)
    /\ Parsed.time = <<1, 1, 1>>
    /\ Parsed.volume = <<0, 123>>
    /\ Parsed.price = <<22, 63886>>
    /\ from_bytes4(SubSeq(msg.body, 15, 18)) # Parsed.volume
    /\ from_bytes4(SubSeq(msg.body, 23, 26)) # Parsed.price

\* C25: a P message built from a timestamp below 2^48 at bytes 4-9, a volume
\* below 2^32 at bytes 19-22, a symbol padded with spaces on the right to 8
\* bytes at bytes 23-30 and price ticks below 2^32 at bytes 31-34 is parsed
\* by process_trade_P into a record with exactly that volume, the symbol as
\* it was before the padding, and the price of exactly those ticks.
C25_TradeRoundTrip ==
    (TradeParsed /\ prog = "parser") =>
        /\ Parsed.volume = msg.volume
        /\ Parsed.symbol = msg.symbol
        /\ Parsed.price = msg.price_int

\* C26: the 6-byte big-endian timestamp is zero-extended to the count of
\* nanoseconds that was written, and every timestamp below 24 hours is
\* rendered as HH:MM:SS of its whole seconds s = floor(ts / 10^9): HH =
\* floor(s / 3600), MM = floor((s mod 3600) / 60), SS = s mod 60.
C26_TimestampRenderedByFloor ==
    (TradeParsed /\ msg.timestamp[1] < 86400) =>
        LET s == msg.timestamp[1]
        IN  /\ from_bytes(SubSeq(msg.body, 5, 10)) = msg.timestamp
            /\ Parsed.time = <<s \div 3600, (s % 3600) \div 60, s % 60>>

-----------------------------------------------------------------------------
(* Properties: engine/parser.py, the order book and its outputs *)

\* An E message, or a C message that is printable, has been read in full.
ExecutionRead == ParserRead("E") \/ (ParserRead("C") /\ msg'.printable = "Y")

\* C27: an E or printable C execution of quantity q against an order of the
\* book with volume v >= q lowers the volume of that order to v - q, removes
\* the order from the book exactly when v = q, and changes no other order.
C27_ExecutionLowersVolume ==
    [][(/\ ExecutionRead
        /\ msg'.ref \in DOMAIN order_book
        /\ order_book[msg'.ref].volume >= msg'.shares)
            => LET r == msg'.ref
                   v == order_book[r].volume
                   q == msg'.shares
               IN  /\ (v = q) <=> (r \notin DOMAIN order_book')
                   /\ (v # q) =>
                        order_book'[r] = [order_book[r] EXCEPT !.volume = v - q]
                   /\ DOMAIN order_book' \ {r} = DOMAIN order_book \ {r}
                   /\ \A o \in DOMAIN order_book \ {r} :
                        order_book'[o] = order_book[o]
      ]_vars

\* C27 witness: two orders rest in the book and an E message has executed 1
\* of the 2 shares of one of them, which stays in the book with 1 share.
C27_Witness ==
    /\ prog = "parser"
    /\ count = 3
    /\ header = "E"
    /\ msg.len = m_map.E
    /\ msg.shares = 1
    /\ DOMAIN order_book = Refs
    /\ order_book[msg.ref].volume = 1
    /\ \E o \in Refs \ {msg.ref} : order_book[o].volume = 2
    /\ Len(executions) = 1

\* The order a U message puts at its new reference: the order of the original
\* reference with the shares and the price of the message.
Replaced(m) ==
    [order_book[m.old_ref] EXCEPT !.volume = m.shares, !.price = m.price]

\* C28: a U message whose original reference is in the book moves the order
\* to the new reference with the shares and price of the message and the
\* stock and side it had, and the original reference is no longer in the
\* book; a U message whose original reference is absent changes nothing: no
\* entry is created and no snapshot is taken.
C28_ReplaceRemovesOriginal ==
    [][ParserRead("U")
            => IF msg'.old_ref \in DOMAIN order_book
               THEN /\ msg'.new_ref \in DOMAIN order_book'
                    /\ order_book'[msg'.new_ref] = Replaced(msg')
                    /\ msg'.old_ref \notin DOMAIN order_book'
               ELSE UNCHANGED <<parser_vars>>
      ]_vars

\* C28 as amended: the same, the original reference being no longer in the
\* book unless the message names it as the new reference too, in which case
\* the order stays under it with the new shares and price.
C28_ReplaceMovesOrder ==
    [][ParserRead("U")
            => IF msg'.old_ref \in DOMAIN order_book
               THEN /\ msg'.new_ref \in DOMAIN order_book'
                    /\ order_book'[msg'.new_ref] = Replaced(msg')
                    /\ (msg'.old_ref \notin DOMAIN order_book')
                            <=> (msg'.new_ref # msg'.old_ref)
               ELSE UNCHANGED <<parser_vars>>
      ]_vars

\* C28 witness: an order was added under one reference and a U message has
\* moved it to the other with new shares and a new price; the stock and the
\* side are those of the order added.
C28_Witness ==
    /\ prog = "parser"
    /\ count = 2
    /\ header = "U"
    /\ msg.len = m_map.U
    /\ msg.old_ref # msg.new_ref
    /\ DOMAIN order_book = {msg.new_ref}
    /\ order_book[msg.new_ref].volume = msg.shares
    /\ order_book[msg.new_ref].price = msg.price
    /\ Len(snapshots) = 2
    /\ snapshots[1] # snapshots[2]

\* The message just read puts reference r into the book: an A or F message
\* for r, or a U message that replaces an order of the book into r.
CreatedBy(r) ==
    \/ (ParserRead("A") \/ ParserRead("F")) /\ msg'.ref = r
    \/ /\ ParserRead("U")
       /\ msg'.new_ref = r
       /\ msg'.old_ref \in DOMAIN order_book

\* The message just read removes reference r, which is in the book: a D
\* message for r, a U message naming r as the original reference, or an
\* execution of exactly the volume of r.
RemovedBy(r) ==
    \/ ParserRead("D") /\ msg'.ref = r
    \/ ParserRead("U") /\ msg'.old_ref = r
    \/ ExecutionRead /\ msg'.ref = r /\ order_book[r].volume = msg'.shares

\* C29: when parse ends the order-book output exists and lists exactly the
\* references that were added by A/F or created by U and not removed
\* afterwards by a D, by a U naming them as the original reference, or by an
\* execution that brought their volume to 0, each once with its current
\* price, volume, side and stock: every message changes the references of
\* the book in exactly this way, and the output written at the end is the
\* book as it then stands.
C29_OrderBookOutput ==
    [][prog = "parser"
            => /\ \A r \in Refs :
                    (r \in DOMAIN order_book')
                        <=> \/ CreatedBy(r)
                            \/ r \in DOMAIN order_book /\ ~RemovedBy(r)
               /\ pc' = "done"
                    => /\ "order_book" \in DOMAIN csv'
                       /\ csv'.order_book = order_book'
      ]_vars

\* C29 witness: two orders were added and one of them deleted; parse has
\* ended and the order-book output lists the other one alone.
C29_Witness ==
    /\ prog = "parser"
    /\ pc = "done"
    /\ count = 3
    /\ Len(snapshots) = 3
    /\ snapshots[3].best_ask # None
    /\ "order_book" \in DOMAIN csv
    /\ Cardinality(DOMAIN csv.order_book) = 1
    /\ \A r \in DOMAIN csv.order_book : csv.order_book[r] = order_book[r]

\* The message just read is one the parser takes a snapshot for: an A or F
\* message, a U or D message whose (original) reference is in the book, an E
\* message or a printable C message, each read in full.
SnapshotDue ==
    \/ ParserRead("A") \/ ParserRead("F")
    \/ ParserRead("U") /\ msg'.old_ref \in DOMAIN order_book
    \/ ParserRead("D") /\ msg'.ref \in DOMAIN order_book
    \/ ExecutionRead

\* C30: exactly one snapshot is appended, at the end of the list and taken of
\* the book after the update, for each A or F message, each U or D message
\* whose (original) reference was in the book and each E or printable C
\* message; no snapshot is appended for any other message (P, R, S, a
\* non-printable C, a U or D naming an absent reference), and none is ever
\* removed or altered.
C30_OneSnapshotPerBookUpdate ==
    [][prog = "parser"
            => IF SnapshotDue
               THEN snapshots' = Append(snapshots, snapshot(order_book', msg'.ts))
               ELSE snapshots' = snapshots
      ]_vars

\* C30 witness: an order was added, then a D message named a reference that
\* is not in the book: one snapshot only, taken after the add, is held.
C30_Witness ==
    /\ prog = "parser"
    /\ count = 3
    /\ header = "D"
    /\ msg.len = m_map.D
    /\ msg.ref \notin DOMAIN order_book
    /\ order_book # <<>>
    /\ Len(snapshots) = 1
    /\ snapshots[1] = snapshot(order_book, msg.ts)

\* The orders of a side in the book after the step, and the last snapshot.
SideOrders(s) == {r \in DOMAIN order_book' : order_book'[r].side = s}

LastSnapshot == snapshots'[Len(snapshots')]

\* C31: a snapshot captures the top of the book at that moment: the best bid
\* price is the maximum price over the orders of side B and the best ask
\* price the minimum price over the orders of side S; the volume reported is
\* that of one order at that price, on a tie the largest for the bid and the
\* smallest for the ask, never the sum at the level; price and volume of a
\* side are None exactly when the side has no order.
C31_SnapshotIsTopOfBook ==
    [][(prog = "parser" /\ Len(snapshots') = Len(snapshots) + 1)
            => LET bids == SideOrders("B")
                   asks == SideOrders("S")
                   bid  == LastSnapshot.best_bid
                   ask  == LastSnapshot.best_ask
               IN  /\ (bid = None) <=> (bids = {})
                   /\ (ask = None) <=> (asks = {})
                   /\ bids # {} =>
                        /\ \A r \in bids : order_book'[r].price <= bid[1]
                        /\ \E r \in bids :
                              /\ order_book'[r].price = bid[1]
                              /\ order_book'[r].volume = bid[2]
                        /\ \A r \in bids :
                              order_book'[r].price = bid[1]
                                  => order_book'[r].volume <= bid[2]
                   /\ asks # {} =>
                        /\ \A r \in asks : order_book'[r].price >= ask[1]
                        /\ \E r \in asks :
                              /\ order_book'[r].price = ask[1]
                              /\ order_book'[r].volume = ask[2]
                        /\ \A r \in asks :
                              order_book'[r].price = ask[1]
                                  => order_book'[r].volume >= ask[2]
      ]_vars

\* C31 witness: two sell orders rest at the same price with 1 and 2 shares;
\* the snapshot reports that price with 1 share, and no bid.
C31_Witness ==
    /\ prog = "parser"
    /\ count = 2
    /\ DOMAIN order_book = Refs
    /\ \A r \in Refs : order_book[r].side = "S"
    /\ order_book[1].price = order_book[2].price
    /\ order_book[1].volume # order_book[2].volume
    /\ Len(snapshots) = 2
    /\ snapshots[2].best_ask = <<order_book[1].price, 1>>
    /\ snapshots[2].best_bid = None

\* C32: an E or printable C execution against an order that is in the book
\* when the message arrives is recorded with the stock of that order; the
\* stock "UNKNOWN" is recorded only when the reference was absent from the
\* book when the message arrived.
C32_ExecutionCarriesOrderStock ==
    [][ExecutionRead
            => /\ Len(executions') = Len(executions) + 1
               /\ executions'[Len(executions')].stock =
                      IF msg'.ref \in DOMAIN order_book
                      THEN order_book[msg'.ref].stock
                      ELSE "UNKNOWN"
      ]_vars

\* C33: an E or printable C execution for more shares than the order it
\* cites has resting (q > v) leaves the volume of that order and the whole
\* book unchanged, and is still recorded with the full quantity q.
C33_OverfillRecordedBookUnchanged ==
    [][(/\ ExecutionRead
        /\ msg'.ref \in DOMAIN order_book
        /\ msg'.shares > order_book[msg'.ref].volume)
            => /\ order_book' = order_book
               /\ Len(executions') = Len(executions) + 1
               /\ executions'[Len(executions')].volume = msg'.shares
      ]_vars

\* C33 witness: an order was added with 1 share and an E message has executed
\* 2 shares against it; the order still rests with 1 share and the execution
\* recorded is of 2 shares, more than the order was added with.
C33_Witness ==
    /\ prog = "parser"
    /\ count = 2
    /\ header = "E"
    /\ msg.len = m_map.E
    /\ msg.shares = 2
    /\ msg.ref \in DOMAIN order_book
    /\ order_book[msg.ref].volume = 1
    /\ Len(executions) = 1
    /\ executions[1].volume = 2
    /\ Len(snapshots) = 2

\* C34: in every reachable state of the parser the volume of every order in
\* the book is a non-negative integer: no sequence of A, F, U, D, E and C
\* messages drives the volume of a resting order below 0.
C34_VolumesNonNegative ==
    prog = "parser" =>
        \A r \in DOMAIN order_book : order_book[r].volume \in Nat

\* C34 witness: an order added with 2 shares was executed for 1 share and
\* then for 2 shares, more than the 1 share left; it rests with 1 share.
C34_Witness ==
    /\ prog = "parser"
    /\ count = 3
    /\ header = "E"
    /\ msg.len = m_map.E
    /\ msg.shares = 2
    /\ msg.ref \in DOMAIN order_book
    /\ order_book[msg.ref].volume = 1
    /\ Len(executions) = 2
    /\ executions[1].volume = 1

\* A P message of another hour than current_hour has been read in full by
\* hourly_vwap.ITCH.parse while trades of current_hour are buffered.
HourChange ==
    /\ prog = "hourly_vwap"
    /\ count' = count + 1
    /\ header' = "P"
    /\ msg'.len = record_sizes.P
    /\ current_hour # "None"
    /\ HourOf(convert_timestamp(msg'.ts)) # current_hour

\* C35: in every reachable state of hourly_vwap.ITCH.parse all trades in the
\* pending buffer have the hour recorded as current_hour (the hour of the
\* time stored with the trade); when a trade of another hour arrives the
\* buffer is flushed to the output of the old hour and emptied before the
\* new trade is buffered, so no output mixes trades of two hours; and the
\* buffer is empty when parse has returned.
C35_BufferHoldsCurrentHour ==
    [][prog = "hourly_vwap"
            => /\ \A i \in DOMAIN trades' :
                    HourOf(trades'[i].time) = current_hour'
               /\ pc' = "done" => trades' = <<>>
               /\ \A f \in DOMAIN outputs' : \A r \in outputs'[f] :
                    TwoDigits(r.time[1]) = f
               /\ HourChange
                    => /\ current_hour \in DOMAIN outputs'
                       /\ {r.symbol : r \in outputs'[current_hour]}
                              = {trades[i].symbol : i \in DOMAIN trades}
                       /\ trades' = <<trade_data(msg')>>
                       /\ current_hour' = HourOf(convert_timestamp(msg'.ts))
      ]_vars

\* C35 witness: a trade of hour 00 was buffered and a trade of hour 01 has
\* arrived: hour 00 has its output and the buffer holds the new trade alone.
C35_Witness ==
    /\ prog = "hourly_vwap"
    /\ pc = "run"
    /\ count = 2
    /\ header = "P"
    /\ current_hour = "01"
    /\ DOMAIN outputs = {"00"}
    /\ Len(trades) = 1
    /\ HourOf(trades[1].time) = "01"
    /\ Len(fed) = 2

====
